---- MODULE Spec2Model ----
(***************************************************************************)
(* Kademlia node facade (KademliaImpl): public API with local fast paths,  *)
(* the inbound message dispatcher and its six handlers.                    *)
(* The collaborators that are injected into the node (storage, content     *)
(* routing table, peer routing table, address repository, scheduler,       *)
(* session, executors) are modelled by the contract the node consumes.     *)
(***************************************************************************)
EXTENDS Integers, Sequences, FiniteSets, TLC

(* ------------------------------ bounds -------------------------------- *)
MaxCalls == 2
MaxTime == 1
MaxMsgs == 3
MaxWalks == 3
RecordTTL == 1

(* ------------------------------ domains ------------------------------- *)
Self == 0
Peers == {0, 1, 2}
NoPeer == 99
Addrs == {"a1"}
Keys == {"k1"}
WireKeys == {"", "bad", "k1"}
Values == {"v1"}
Streams == {"s1", "s2"}
Limits == {0, 1, 2}
Connectedness == {"NOT_CONNECTED", "CONNECTED", "CAN_CONNECT", "CAN_NOT_CONNECT"}
MessageTypes ==
  {"PUT_VALUE", "GET_VALUE", "ADD_PROVIDER", "GET_PROVIDERS", "FIND_NODE", "PING"}
UnknownTypes == {"UNKNOWN"}
CloserPeerCounts == {1, 2}
BucketSizes == {1, 2}
(* config_.randomWalk: interval and delay in scheduler ticks.              *)
RandomWalkConfigs ==
  [enabled : BOOLEAN, interval : {4}, delay : {1}, queries_per_period : {1, 2}]
NoRandomWalk ==
  [enabled |-> FALSE, interval |-> 4, delay |-> 1, queries_per_period |-> 1]

(* Optional values are sequences of length 0 (absent) or 1 (present).      *)
None == <<>>
Some(x) == <<x>>
Has(o) == Len(o) > 0
Get(o) == o[1]

(* --------------------------- pure helpers ----------------------------- *)
(* NodeId is a hash of the peer id or of the content id (2-bit space).     *)
NodeIdOfPeer == (0 :> 1) @@ (1 :> 3) @@ (2 :> 2)
NodeIdOfKey == ("k1" :> 2)

Bit(a, i) == (a \div (2 ^ i)) % 2
Xor(a, b) ==
  ((Bit(a, 1) + Bit(b, 1)) % 2) * 2 + ((Bit(a, 0) + Bit(b, 0)) % 2)

commonPrefixLen(a, b) ==
  IF Bit(a, 1) # Bit(b, 1) THEN 0
  ELSE IF Bit(a, 0) # Bit(b, 0) THEN 1 ELSE 2

(* ContentId::fromWire: absent for an empty or malformed key, else the    *)
(* content id holding the wire bytes.                                      *)
fromWire(w) == IF w \in Keys THEN Some(w) ELSE None

RECURSIVE SortByDistance(_, _)
SortByDistance(S, target) ==
  IF S = {} THEN <<>>
  ELSE LET p == CHOOSE x \in S :
                  \A y \in S : Xor(NodeIdOfPeer[x], target) <= Xor(NodeIdOfPeer[y], target)
       IN <<p>> \o SortByDistance(S \ {p}, target)

Take(s, n) == SubSeq(s, 1, IF Len(s) < n THEN Len(s) ELSE n)
Range(s) == {s[i] : i \in 1..Len(s)}

(* PeerRoutingTable::getNearestPeers(id, n)                                *)
getNearestPeers(table, target, n) == Take(SortByDistance(table, target), n)

(* PeerRoutingTable::update(peer): "added", "updated" or "rejected".       *)
BucketOf(p) == commonPrefixLen(NodeIdOfPeer[p], NodeIdOfPeer[Self])
updateResult(table, bucketSize, p) ==
  IF p \in table THEN "updated"
  ELSE IF Cardinality({q \in table : BucketOf(q) = BucketOf(p)}) < bucketSize
       THEN "added" ELSE "rejected"

(* ContentRoutingTable::getProvidersFor(key, limit): newest first, up to   *)
(* limit entries; NoLimit is the default argument.                         *)
NoLimit == 1000000
getProvidersFor(table, key, limit) ==
  IF limit = NoLimit THEN table[key] ELSE Take(table[key], limit)

(* ContentRoutingTable::addProvider(key, peer): insert or refresh, newest  *)
(* first.                                                                  *)
SeqWithout(s, x) == SelectSeq(s, LAMBDA y : y # x)
addProvider(table, key, peer) ==
  [table EXCEPT ![key] = <<peer>> \o SeqWithout(table[key], peer)]

(* AddressRepository::upsertAddresses and PeerRepository::getPeerInfo.     *)
upsertAddresses(repo, id, addresses, ttl) ==
  [repo EXCEPT ![id] = [a \in Addrs |-> IF a \in addresses THEN ttl ELSE repo[id][a]]]
getPeerInfo(repo, id) ==
  [id |-> id, addresses |-> {a \in Addrs : repo[id][a] # "absent"}]

VARIABLES
  config_,                 \* closerPeerCount, bucket size of the routing table,
                           \* randomWalk
  storage_,                \* key -> optional [value, expire]
  now,                     \* scheduler_->now()
  content_routing_table_,  \* key -> sequence of provider peer ids, newest first
  peer_routing_table_,     \* set of peer ids held in the k-buckets
  address_repository,      \* peer -> address -> "absent" | "day" | "permanent"
  connectedness,           \* connection manager's classification of each peer
  sessions_,               \* streams that have an entry in the session map
  session,                 \* stream -> session object state, with the number of
                           \* messages it delivered and the requests it answered
  scheduled,               \* callbacks posted to the scheduler, in order
  calls,                   \* API calls that took a handler, in call order
  executors,               \* executors created and started, by call index
  dispatched,              \* the last dispatched message and what was done with it
  started_,                \* start() has run
  random_walking_,         \* iteration counter and handle of the scheduled walk
  timers,                  \* delayed callbacks outstanding in the scheduler
  walks,                   \* the delay each executed walk scheduled, in order
  lookups,                 \* number of findRandomPeer lookups issued so far
  NDEBUG,                  \* the build compiles BOOST_ASSERT out
  aborted                  \* a failed BOOST_ASSERT has ended the process

vars == <<config_, storage_, now, content_routing_table_, peer_routing_table_,
          address_repository, connectedness, sessions_, session, scheduled,
          calls, executors, dispatched, started_, random_walking_, timers,
          walks, lookups, NDEBUG, aborted>>

walkVars == <<started_, random_walking_, timers, walks, lookups, NDEBUG, aborted>>

nodeVars == <<storage_, content_routing_table_, peer_routing_table_, address_repository>>
apiVars == <<scheduled, calls, executors>>
sessVars == <<sessions_, session>>

NoSession == [remote |-> NoPeer, opened |-> FALSE, closed |-> FALSE, error |-> "",
              requests |-> 0, responses |-> <<>>]

Init ==
  /\ config_ \in [closerPeerCount : CloserPeerCounts, bucketSize : BucketSizes,
                   randomWalk : RandomWalkConfigs]
  /\ storage_ = [k \in Keys |-> None]
  /\ now = 0
  /\ content_routing_table_ = [k \in Keys |-> <<>>]
  /\ peer_routing_table_ = {}
  /\ address_repository = [p \in Peers |-> [a \in Addrs |-> "absent"]]
  /\ connectedness = [p \in Peers |-> "NOT_CONNECTED"]
  /\ sessions_ = {}
  /\ session = [s \in Streams |-> NoSession]
  /\ scheduled = <<>>
  /\ calls = <<>>
  /\ executors = {}
  /\ dispatched = None
  /\ started_ = FALSE
  /\ random_walking_ = [iteration |-> 0, handle |-> None]
  /\ timers = {}
  /\ walks = <<>>
  /\ lookups = 0
  /\ NDEBUG \in BOOLEAN
  /\ aborted = FALSE

(* ------------------------------ addPeer ------------------------------- *)
(* The node state touched by addPeer is the pair (repo, table).  upsert_ok *)
(* is the outcome of AddressRepository::upsertAddresses.                   *)
(* addPeer that updates the routing table before it upserts the addresses. *)
addPeer_UpdatesFirst(st, peer_info, permanent, upsert_ok) ==
  LET update_res == updateResult(st.table, config_.bucketSize, peer_info.id)
      table == IF update_res = "added" THEN st.table \cup {peer_info.id} ELSE st.table
  IN IF ~upsert_ok THEN [repo |-> st.repo, table |-> table]
     ELSE [repo |-> upsertAddresses(st.repo, peer_info.id, peer_info.addresses,
                                    IF permanent THEN "permanent" ELSE "day"),
           table |-> table]

addPeer(st, peer_info, permanent, upsert_ok) ==
  IF ~upsert_ok THEN st
  ELSE LET repo == upsertAddresses(st.repo, peer_info.id, peer_info.addresses,
                                   IF permanent THEN "permanent" ELSE "day")
           update_res == updateResult(st.table, config_.bucketSize, peer_info.id)
       IN [repo |-> repo,
           table |-> IF update_res = "added" THEN st.table \cup {peer_info.id}
                     ELSE st.table]

NodeSt == [repo |-> address_repository, table |-> peer_routing_table_]

getNearestPeerIds(id) ==
  getNearestPeers(peer_routing_table_, id, config_.closerPeerCount * 2)

(* getNearestPeerInfos that does not ask the connection manager.           *)
getNearestPeerInfos_KeepsUnconnectable(id) ==
  {getPeerInfo(address_repository, p) :
     p \in {q \in Range(getNearestPeerIds(id)) :
              /\ q # Self
              /\ getPeerInfo(address_repository, q).addresses # {}}}

getNearestPeerInfos(id) ==
  {getPeerInfo(address_repository, p) :
     p \in {q \in Range(getNearestPeerIds(id)) :
              /\ q # Self
              /\ getPeerInfo(address_repository, q).addresses # {}
              /\ connectedness[q] # "CAN_NOT_CONNECT"}}

(* ------------------------------ public API ---------------------------- *)
Call(op, arg, handler, ret, sync, delivered, executor, lookup) ==
  [op |-> op, arg |-> arg, handler |-> handler, ret |-> ret, sync |-> sync,
   delivered |-> delivered, executor |-> executor, lookup |-> lookup]

(* getValue that starts a lookup even when it has no peer to ask.           *)
getValue_StartsWithoutPeers(key, handler) ==
  /\ Len(calls) < MaxCalls
  /\ LET res == storage_[key]
         idx == Len(calls) + 1
     IN IF Has(res) /\ now < Get(res).expire /\ handler
        THEN /\ calls' = Append(calls, Call("getValue", key, handler, "success", 1,
                                            <<Get(res).value>>, FALSE, FALSE))
             /\ UNCHANGED executors
        ELSE /\ calls' = Append(calls, Call("getValue", key, handler, "started",
                                            0, <<>>, TRUE, TRUE))
             /\ executors' = executors \cup
                  {[kind |-> "GetValue", call |-> idx,
                    peers |-> getNearestPeerInfos(NodeIdOfKey[key])]}
  /\ UNCHANGED <<walkVars, config_, nodeVars, now, connectedness, sessVars, scheduled, dispatched>>

(* getValue that serves the local record without looking at its expiry.   *)
getValue_ServesExpired(key, handler) ==
  /\ Len(calls) < MaxCalls
  /\ LET res == storage_[key]
         idx == Len(calls) + 1
     IN IF Has(res) /\ handler
        THEN /\ calls' = Append(calls, Call("getValue", key, handler, "success", 1,
                                            <<Get(res).value>>, FALSE, FALSE))
             /\ UNCHANGED executors
        ELSE LET nearest_peer_infos == getNearestPeerInfos(NodeIdOfKey[key])
             IN IF nearest_peer_infos = {}
                THEN /\ calls' = Append(calls, Call("getValue", key, handler, "NO_PEERS",
                                                    0, <<>>, FALSE, TRUE))
                     /\ UNCHANGED executors
                ELSE /\ calls' = Append(calls, Call("getValue", key, handler, "started",
                                                    0, <<>>, TRUE, TRUE))
                     /\ executors' = executors \cup
                          {[kind |-> "GetValue", call |-> idx, peers |-> nearest_peer_infos]}
  /\ UNCHANGED <<walkVars, config_, nodeVars, now, connectedness, sessVars, scheduled, dispatched>>

getValue(key, handler) ==
  /\ Len(calls) < MaxCalls
  /\ LET res == storage_[key]
         idx == Len(calls) + 1
     IN IF Has(res) /\ now < Get(res).expire /\ handler
        THEN \* handler(std::move(value)) runs inside the call
             /\ calls' = Append(calls, Call("getValue", key, handler, "success", 1,
                                            <<Get(res).value>>, FALSE, FALSE))
             /\ UNCHANGED executors
        ELSE LET nearest_peer_infos == getNearestPeerInfos(NodeIdOfKey[key])
             IN IF nearest_peer_infos = {}
                THEN /\ calls' = Append(calls, Call("getValue", key, handler, "NO_PEERS",
                                                    0, <<>>, FALSE, TRUE))
                     /\ UNCHANGED executors
                ELSE /\ calls' = Append(calls, Call("getValue", key, handler, "started",
                                                    0, <<>>, TRUE, TRUE))
                     /\ executors' = executors \cup
                          {[kind |-> "GetValue", call |-> idx, peers |-> nearest_peer_infos]}
  /\ UNCHANGED <<walkVars, config_, nodeVars, now, connectedness, sessVars, scheduled, dispatched>>

(* findPeer that posts the local answer twice.                             *)
findPeer_PostsTwice(peer_id) ==
  /\ Len(calls) < MaxCalls
  /\ LET peer_info == getPeerInfo(address_repository, peer_id)
         idx == Len(calls) + 1
     IN IF peer_info.addresses # {}
        THEN /\ scheduled' = scheduled \o <<[call |-> idx, result |-> peer_info],
                                             [call |-> idx, result |-> peer_info]>>
             /\ calls' = Append(calls, Call("findPeer", peer_id, TRUE, "success", 0,
                                            <<>>, FALSE, FALSE))
             /\ UNCHANGED executors
        ELSE /\ calls' = Append(calls, Call("findPeer", peer_id, TRUE, "started", 0,
                                            <<>>, TRUE, FALSE))
             /\ executors' = executors \cup {[kind |-> "FindPeer", call |-> idx, peers |-> {}]}
             /\ UNCHANGED scheduled
  /\ UNCHANGED <<walkVars, config_, nodeVars, now, connectedness, sessVars, dispatched>>

findPeer(peer_id) ==
  /\ Len(calls) < MaxCalls
  /\ LET peer_info == getPeerInfo(address_repository, peer_id)
         idx == Len(calls) + 1
     IN IF peer_info.addresses # {}
        THEN /\ scheduled' = Append(scheduled, [call |-> idx, result |-> peer_info])
             /\ calls' = Append(calls, Call("findPeer", peer_id, TRUE, "success", 0,
                                            <<>>, FALSE, FALSE))
             /\ UNCHANGED executors
        ELSE /\ calls' = Append(calls, Call("findPeer", peer_id, TRUE, "started", 0,
                                            <<>>, TRUE, FALSE))
             /\ executors' = executors \cup {[kind |-> "FindPeer", call |-> idx, peers |-> {}]}
             /\ UNCHANGED scheduled
  /\ UNCHANGED <<walkVars, config_, nodeVars, now, connectedness, sessVars, dispatched>>

(* The loop of findProviders over the providers it got.                    *)
RECURSIVE LocalProviders(_, _, _)
LocalProviders(providers, limit, result) ==
  IF providers = <<>> \/ Len(result) >= limit THEN result
  ELSE LET peer_info == getPeerInfo(address_repository, Head(providers))
       IN IF peer_info.addresses = {}
          THEN LocalProviders(Tail(providers), limit, result)
          ELSE IF connectedness[peer_info.id] = "CAN_NOT_CONNECT"
               THEN LocalProviders(Tail(providers), limit, result)
               ELSE LocalProviders(Tail(providers), limit, Append(result, peer_info))

findProvidersLocal(providers, limit) ==
  IF providers # <<>> /\ limit > 0 /\ Len(providers) > limit
  THEN LET result == LocalProviders(providers, limit, <<>>)
       IN IF Len(result) >= limit THEN Some(result) ELSE None
  ELSE None

findProviders(key, limit) ==
  /\ Len(calls) < MaxCalls
  /\ LET providers == getProvidersFor(content_routing_table_, key, limit)
         local == findProvidersLocal(providers, limit)
         idx == Len(calls) + 1
     IN IF Has(local)
        THEN /\ scheduled' = Append(scheduled, [call |-> idx, result |-> Get(local)])
             /\ calls' = Append(calls, Call("findProviders", <<key, limit>>, TRUE, "success",
                                            0, <<>>, FALSE, FALSE))
             /\ UNCHANGED executors
        ELSE /\ calls' = Append(calls, Call("findProviders", <<key, limit>>, TRUE, "started",
                                            0, <<>>, TRUE, FALSE))
             /\ executors' = executors \cup
                  {[kind |-> "FindProviders", call |-> idx, peers |-> {}]}
             /\ UNCHANGED scheduled
  /\ UNCHANGED <<walkVars, config_, nodeVars, now, connectedness, sessVars, dispatched>>

putValue(key, value, put_ok) ==
  /\ storage_' = IF put_ok
                 THEN [storage_ EXCEPT ![key] = Some([value |-> value, expire |-> now + RecordTTL])]
                 ELSE storage_
  /\ UNCHANGED <<walkVars, config_, now, content_routing_table_, peer_routing_table_,
                 address_repository, connectedness, sessVars, apiVars, dispatched>>

provide(key, need_notify) ==
  /\ content_routing_table_' = addProvider(content_routing_table_, key, Self)
  /\ executors' = IF need_notify
                  THEN executors \cup {[kind |-> "AddProvider", call |-> 0, peers |-> {}]}
                  ELSE executors
  /\ UNCHANGED <<walkVars, config_, storage_, now, peer_routing_table_, address_repository,
                 connectedness, sessVars, scheduled, calls, dispatched>>

addPeerCall(peer_info, permanent, upsert_ok) ==
  /\ LET st == addPeer(NodeSt, peer_info, permanent, upsert_ok)
     IN /\ address_repository' = st.repo
        /\ peer_routing_table_' = st.table
  /\ UNCHANGED <<walkVars, config_, storage_, now, content_routing_table_, connectedness,
                 sessVars, apiVars, dispatched>>

(* ------------------------ scheduler and environment ------------------- *)
(* The scheduler runs the oldest posted callback, once.                    *)
RunScheduled ==
  /\ scheduled # <<>>
  /\ Head(scheduled).call > 0
  /\ LET cb == Head(scheduled)
     IN calls' = [calls EXCEPT ![cb.call].delivered = Append(@, cb.result)]
  /\ scheduled' = Tail(scheduled)
  /\ UNCHANGED <<walkVars, config_, nodeVars, now, connectedness, sessVars, executors, dispatched>>

(* An executor completes its lookup and delivers to the handler it holds.  *)
ExecutorDeliver(e) ==
  /\ e \in executors
  /\ e.call >= 0
  /\ executors' = executors \ {e}
  /\ calls' = IF e.call > 0 /\ calls[e.call].handler
              THEN [calls EXCEPT ![e.call].delivered = Append(@, "lookup_result")]
              ELSE calls
  /\ UNCHANGED <<walkVars, config_, nodeVars, now, connectedness, sessVars, scheduled, dispatched>>

Tick ==
  /\ now < MaxTime
  /\ now' = now + 1
  /\ UNCHANGED <<walkVars, config_, nodeVars, connectedness, sessVars, apiVars, dispatched>>

SetConnectedness(p, c) ==
  /\ connectedness[p] # c
  /\ connectedness' = [connectedness EXCEPT ![p] = c]
  /\ UNCHANGED <<walkVars, config_, nodeVars, now, sessVars, apiVars, dispatched>>

(* Inputs enumerated for the API specification.                            *)
ApiPeers == {1}
ApiConfig == [closerPeerCount |-> 1, bucketSize |-> 1, randomWalk |-> NoRandomWalk]
ApiPeerInfos == [id : ApiPeers, addresses : SUBSET Addrs]

NextApi ==
  \/ \E k \in Keys, h \in BOOLEAN : getValue(k, h)
  \/ \E p \in Peers : findPeer(p)
  \/ \E k \in Keys, l \in Limits : findProviders(k, l)
  \/ \E k \in Keys, v \in Values, ok \in BOOLEAN : putValue(k, v, ok)
  \/ \E k \in Keys : provide(k, FALSE)
  \/ \E pi \in ApiPeerInfos, ok \in BOOLEAN : addPeerCall(pi, FALSE, ok)
  \/ RunScheduled
  \/ \E e \in executors : ExecutorDeliver(e)
  \/ Tick
  \/ \E p \in ApiPeers, c \in {"NOT_CONNECTED", "CAN_NOT_CONNECT"} : SetConnectedness(p, c)

InitApi == Init /\ config_ = ApiConfig /\ NDEBUG
SpecApi == InitApi /\ [][NextApi]_vars

(* ------------------------- inbound messages --------------------------- *)
(* A handler reads the node state and yields an outcome: the node state    *)
(* it leaves, the response it wrote (if any), the error it closed the      *)
(* session with (if any) and whether session->write was called after the   *)
(* session had been closed.  env holds the outcomes of the collaborators   *)
(* the handler calls.                                                      *)
CurSt == [repo |-> address_repository, table |-> peer_routing_table_,
          content |-> content_routing_table_, storage |-> storage_]

Outcome(st, response, close, write_after_close) ==
  [st |-> st, response |-> response, close |-> close,
   write_after_close |-> write_after_close]

(* serialize, then write; on a serialize failure the session is closed and *)
(* control reaches BOOST_UNREACHABLE_RETURN, after which the build either  *)
(* leaves the handler or runs on into session->write.                      *)
Reply(st, msg, env) ==
  IF env.serialize_ok
  THEN Outcome(st, Some(msg), "", FALSE)
  ELSE Outcome(st, None, "MESSAGE_SERIALIZE_ERROR", env.falls_through)

(* The loops that turn peer ids into Message::Peer entries.                *)
RECURSIVE PeersWithAddresses(_, _, _)
PeersWithAddresses(repo, ids, peers) ==
  IF ids = <<>> \/ Len(peers) >= config_.closerPeerCount THEN peers
  ELSE LET info == getPeerInfo(repo, Head(ids))
       IN IF info.addresses = {}
          THEN PeersWithAddresses(repo, Tail(ids), peers)
          ELSE PeersWithAddresses(repo, Tail(ids),
                 Append(peers, [info |-> info, conn_status |-> connectedness[info.id]]))

(* onPing that returns without writing the echo.                           *)
onPing_NoReply(s, msg, env) ==
  Outcome(CurSt, None, "", FALSE)

onPing(s, msg, env) ==
  Reply(CurSt, [type |-> msg.type, key |-> "", closer_peers |-> None,
                provider_peers |-> None, record |-> None], env)

RECURSIVE UpsertCloserPeers(_, _, _)
UpsertCloserPeers(repo, peers, upsert_ok) ==
  IF peers = <<>> THEN repo
  ELSE LET peer == Head(peers)
           repo1 == IF peer.conn_status # "CAN_NOT_CONNECT" /\ upsert_ok
                    THEN upsertAddresses(repo, peer.info.id, peer.info.addresses, "day")
                    ELSE repo
       IN UpsertCloserPeers(repo1, Tail(peers), upsert_ok)

(* onFindNode that leaves the requester's closer_peers in the message.     *)
onFindNode_KeepsCloserPeers(s, msg, env) ==
  LET repo == IF Has(msg.closer_peers)
              THEN UpsertCloserPeers(address_repository, Get(msg.closer_peers), env.upsert_ok)
              ELSE address_repository
      st == [CurSt EXCEPT !.repo = repo]
      cid_res == fromWire(msg.key)
  IN IF ~Has(cid_res) THEN Outcome(st, None, "", FALSE)
     ELSE LET ids == getNearestPeerIds(NodeIdOfKey[Get(cid_res)])
              peers == PeersWithAddresses(repo, ids, <<>>)
              msg2 == IF peers # <<>> THEN [msg EXCEPT !.closer_peers = Some(peers)]
                      ELSE msg
          IN Reply(st, msg2, env)

onFindNode(s, msg, env) ==
  LET repo == IF Has(msg.closer_peers)
              THEN UpsertCloserPeers(address_repository, Get(msg.closer_peers), env.upsert_ok)
              ELSE address_repository
      st == [CurSt EXCEPT !.repo = repo]
      msg1 == [msg EXCEPT !.closer_peers = None]
      cid_res == fromWire(msg.key)
  IN IF ~Has(cid_res) THEN Outcome(st, None, "", FALSE)
     ELSE LET ids == getNearestPeerIds(NodeIdOfKey[Get(cid_res)])
              peers == PeersWithAddresses(repo, ids, <<>>)
              msg2 == IF peers # <<>> THEN [msg1 EXCEPT !.closer_peers = Some(peers)]
                      ELSE msg1
          IN Reply(st, msg2, env)

onGetValue(s, msg, env) ==
  IF msg.key = "" THEN Outcome(CurSt, None, "", FALSE)
  ELSE LET cid_res == fromWire(msg.key)
       IN IF ~Has(cid_res) THEN Outcome(CurSt, None, "", FALSE)
          ELSE LET cid == Get(cid_res)
                   providers == getProvidersFor(content_routing_table_, cid, NoLimit)
                   msg1 == IF providers # <<>>
                           THEN [msg EXCEPT !.provider_peers =
                                   Some(PeersWithAddresses(address_repository, providers, <<>>))]
                           ELSE msg
                   res == storage_[cid]
                   msg2 == IF Has(res)
                           THEN [msg1 EXCEPT !.record =
                                   Some([key |-> cid, value |-> Get(res).value,
                                         expire |-> Get(res).expire])]
                           ELSE msg1
               IN Reply(CurSt, msg2, env)

onGetProviders(s, msg, env) ==
  IF msg.key = "" THEN Outcome(CurSt, None, "", FALSE)
  ELSE LET cid_res == fromWire(msg.key)
       IN IF ~Has(cid_res) THEN Outcome(CurSt, None, "", FALSE)
          ELSE LET cid == Get(cid_res)
                   provider_ids == getProvidersFor(content_routing_table_, cid,
                                                   config_.closerPeerCount * 2)
                   providers == PeersWithAddresses(address_repository, provider_ids, <<>>)
                   msg1 == IF providers # <<>>
                           THEN [msg EXCEPT !.provider_peers = Some(providers)] ELSE msg
                   peer_ids == getNearestPeers(peer_routing_table_, NodeIdOfKey[cid],
                                               config_.closerPeerCount * 2)
                   peers == PeersWithAddresses(address_repository, peer_ids, <<>>)
                   msg2 == IF peers # <<>>
                           THEN [msg1 EXCEPT !.closer_peers = Some(peers)] ELSE msg1
               IN Reply(CurSt, msg2, env)

(* AddProviders that records every declared provider, whoever sent it.    *)
RECURSIVE AddProviders_AnyPeer(_, _, _, _, _)
AddProviders_AnyPeer(st, cid, providers, remote, env) ==
  IF providers = <<>> THEN st
  ELSE LET provider == Head(providers)
           added == addPeer([repo |-> st.repo, table |-> st.table],
                            provider.info, FALSE, env.upsert_ok)
           st1 == [st EXCEPT !.content = addProvider(st.content, cid, provider.info.id),
                             !.repo = added.repo, !.table = added.table]
       IN AddProviders_AnyPeer(st1, cid, Tail(providers), remote, env)

RECURSIVE AddProviders(_, _, _, _, _)
AddProviders(st, cid, providers, remote, env) ==
  IF providers = <<>> THEN st
  ELSE LET provider == Head(providers)
           st1 == IF env.peer_id_ok /\ remote = provider.info.id
                  THEN LET added == addPeer([repo |-> st.repo, table |-> st.table],
                                            provider.info, FALSE, env.upsert_ok)
                       IN [st EXCEPT !.content = addProvider(st.content, cid, provider.info.id),
                                     !.repo = added.repo, !.table = added.table]
                  ELSE st
       IN AddProviders(st1, cid, Tail(providers), remote, env)

onAddProvider(s, msg, env) ==
  IF ~Has(msg.provider_peers) THEN Outcome(CurSt, None, "", FALSE)
  ELSE LET cid_res == fromWire(msg.key)
       IN IF ~Has(cid_res) THEN Outcome(CurSt, None, "", FALSE)
          ELSE Outcome(AddProviders(CurSt, Get(cid_res), Get(msg.provider_peers),
                                    session[s].remote, env),
                       None, "", FALSE)

(* onPutValue that stores the record whatever the validator said.          *)
onPutValue_SkipsValidation(s, msg, env) ==
  IF ~Has(msg.record) THEN Outcome(CurSt, None, "", FALSE)
  ELSE LET rec == Get(msg.record)
       IN IF ~env.put_ok THEN Outcome(CurSt, None, "", FALSE)
          ELSE Outcome([CurSt EXCEPT !.storage =
                          [storage_ EXCEPT ![rec.key] =
                             Some([value |-> rec.value, expire |-> now + RecordTTL])]],
                       None, "", FALSE)

onPutValue(s, msg, env) ==
  IF ~Has(msg.record) THEN Outcome(CurSt, None, "", FALSE)
  ELSE LET rec == Get(msg.record)
       IN IF ~env.validate_ok THEN Outcome(CurSt, None, "", FALSE)
          ELSE IF ~env.put_ok THEN Outcome(CurSt, None, "", FALSE)
          ELSE Outcome([CurSt EXCEPT !.storage =
                          [storage_ EXCEPT ![rec.key] =
                             Some([value |-> rec.value, expire |-> now + RecordTTL])]],
                       None, "", FALSE)

(* dispatch that answers an unknown type like a PING.                      *)
dispatch_UnknownAsPing(s, msg, env) ==
  CASE msg.type = "PUT_VALUE" -> onPutValue(s, msg, env)
    [] msg.type = "GET_VALUE" -> onGetValue(s, msg, env)
    [] msg.type = "ADD_PROVIDER" -> onAddProvider(s, msg, env)
    [] msg.type = "GET_PROVIDERS" -> onGetProviders(s, msg, env)
    [] msg.type = "FIND_NODE" -> onFindNode(s, msg, env)
    [] OTHER -> onPing(s, msg, env)

dispatch(s, msg, env) ==
  CASE msg.type = "PUT_VALUE" -> onPutValue(s, msg, env)
    [] msg.type = "GET_VALUE" -> onGetValue(s, msg, env)
    [] msg.type = "ADD_PROVIDER" -> onAddProvider(s, msg, env)
    [] msg.type = "GET_PROVIDERS" -> onGetProviders(s, msg, env)
    [] msg.type = "FIND_NODE" -> onFindNode(s, msg, env)
    [] msg.type = "PING" -> onPing(s, msg, env)
    [] OTHER -> Outcome(CurSt, None, "UNEXPECTED_MESSAGE_TYPE", FALSE)

(* KademliaImpl::closeSession on the pair (session map, sessions).          *)
closeSession_KeepsEntry(sess, s) ==
  IF s \notin sess.map THEN sess
  ELSE [map |-> sess.map,
        objects |-> [sess.objects EXCEPT ![s].closed = TRUE]]

closeSession(sess, s) ==
  IF s \notin sess.map THEN sess
  ELSE [map |-> sess.map \ {s},
        objects |-> [sess.objects EXCEPT ![s].closed = TRUE]]

Sess == [map |-> sessions_, objects |-> session]

(* The session of a stream completes (the remote closed the stream, a read *)
(* failed, an executor is done with it) and calls closeSession(stream).    *)
closeSessionCall(s) ==
  /\ session[s].opened
  /\ LET sess == closeSession(Sess, s)
     IN /\ sessions_' = sess.map
        /\ session' = sess.objects
  /\ UNCHANGED <<walkVars, config_, nodeVars, now, connectedness, apiVars, dispatched>>

(* Session::close(error): the session is closed and the node drops its     *)
(* entry from the session map.                                             *)
onMessage(s, msg, env) ==
  /\ s \in sessions_
  /\ ~session[s].closed
  /\ session[s].requests < MaxMsgs
  /\ \E out \in {dispatch(s, msg, env)} :
        /\ address_repository' = out.st.repo
        /\ peer_routing_table_' = out.st.table
        /\ content_routing_table_' = out.st.content
        /\ storage_' = out.st.storage
        /\ \E sess \in {IF out.close # ""
                         THEN closeSession([map |-> sessions_,
                                            objects |-> [session EXCEPT ![s].error = out.close]], s)
                         ELSE Sess} :
              /\ sessions_' = sess.map
              /\ session' = [sess.objects EXCEPT
                                ![s].requests = @ + 1,
                                ![s].responses = IF Has(out.response)
                                                 THEN Append(@, session[s].requests + 1)
                                                 ELSE @]
        /\ dispatched' = Some([seq |-> IF Has(dispatched) THEN 1 - Get(dispatched).seq ELSE 0,
                               stream |-> s, type |-> msg.type, key |-> msg.key,
                               record |-> msg.record,
                               providers |-> IF msg.type = "ADD_PROVIDER" /\ Has(msg.provider_peers)
                                             THEN {Get(msg.provider_peers)[i].info.id :
                                                     i \in 1..Len(Get(msg.provider_peers))}
                                             ELSE {},
                               validate_ok |-> IF msg.type = "PUT_VALUE" /\ Has(msg.record)
                                               THEN Some(env.validate_ok) ELSE None,
                               remote_peer_id |-> IF msg.type = "ADD_PROVIDER" /\ env.peer_id_ok
                                                  THEN Some(session[s].remote) ELSE None,
                               response |-> out.response,
                               write_after_close |-> out.write_after_close])
  /\ UNCHANGED <<walkVars, config_, now, connectedness, apiVars>>

(* handleProtocol: an inbound stream of remote peer `remote`.              *)
handleProtocol(s, stream_ok, remote, upsert_ok, read_ok) ==
  /\ ~session[s].opened
  /\ IF ~stream_ok
     THEN UNCHANGED <<address_repository, peer_routing_table_, sessions_, session>>
     ELSE /\ LET st == addPeer(NodeSt, [id |-> remote, addresses |-> Addrs], FALSE, upsert_ok)
             IN /\ address_repository' = st.repo
                /\ peer_routing_table_' = st.table
          /\ session' = [session EXCEPT ![s] = [remote |-> remote, opened |-> TRUE,
                                                 closed |-> ~read_ok, error |-> "",
                                                 requests |-> 0, responses |-> <<>>]]
          /\ sessions_' = IF read_ok THEN sessions_ \cup {s} ELSE sessions_
  /\ UNCHANGED <<walkVars, config_, storage_, now, content_routing_table_, connectedness,
                 apiVars, dispatched>>

(* Inputs enumerated for the message specification.                        *)
MsgConfig == [closerPeerCount |-> 1, bucketSize |-> 1, randomWalk |-> NoRandomWalk]
MsgRemotes == {1}
MsgStreams == {"s1"}
MsgPeer(id, addresses, conn_status) ==
  [info |-> [id |-> id, addresses |-> addresses], conn_status |-> conn_status]
MsgPeerLists ==
  {<<>>,
   <<MsgPeer(1, {"a1"}, "CAN_CONNECT")>>,
   <<MsgPeer(2, {"a1"}, "CAN_CONNECT")>>,
   <<MsgPeer(2, {"a1"}, "CAN_NOT_CONNECT")>>,
   <<MsgPeer(2, {"a1"}, "CONNECTED"), MsgPeer(1, {}, "CONNECTED")>>}
ForeignPeers == Some(<<MsgPeer(2, {"a1"}, "CAN_CONNECT")>>)
MsgRecord == [key |-> "k1", value |-> "v1"]
Message(type, key, closer_peers, provider_peers, record) ==
  [type |-> type, key |-> key, closer_peers |-> closer_peers,
   provider_peers |-> provider_peers, record |-> record]
Messages ==
  {Message(t, "k1", None, None, None) : t \in {"PING"} \cup UnknownTypes}
  \cup {Message("PUT_VALUE", "k1", None, None, r) : r \in {None, Some(MsgRecord)}}
  \cup {Message(t, k, c, None, None) :
          t \in {"GET_VALUE", "GET_PROVIDERS"}, k \in WireKeys, c \in {None, ForeignPeers}}
  \cup {Message("FIND_NODE", k, c, None, None) :
          k \in WireKeys, c \in {None} \cup {Some(l) : l \in MsgPeerLists}}
  \cup {Message("ADD_PROVIDER", k, None, pp, None) :
          k \in WireKeys, pp \in {None} \cup {Some(l) : l \in MsgPeerLists}}

Env(serialize_ok, falls_through, upsert_ok, peer_id_ok, validate_ok, put_ok) ==
  [serialize_ok |-> serialize_ok, falls_through |-> falls_through,
   upsert_ok |-> upsert_ok, peer_id_ok |-> peer_id_ok,
   validate_ok |-> validate_ok, put_ok |-> put_ok]
ReplyEnvs ==
  {Env(TRUE, FALSE, u, TRUE, TRUE, TRUE) : u \in BOOLEAN} \cup
  {Env(FALSE, f, TRUE, TRUE, TRUE, TRUE) : f \in BOOLEAN}
EnvsFor(msg) ==
  CASE msg.type \in {"PING", "GET_VALUE", "GET_PROVIDERS"} ->
         {e \in ReplyEnvs : e.upsert_ok}
    [] msg.type = "FIND_NODE" -> ReplyEnvs
    [] msg.type = "ADD_PROVIDER" ->
         {Env(TRUE, FALSE, u, p, TRUE, TRUE) : u \in BOOLEAN, p \in BOOLEAN}
    [] msg.type = "PUT_VALUE" ->
         {Env(TRUE, FALSE, TRUE, TRUE, v, p) : v \in BOOLEAN, p \in BOOLEAN}
    [] OTHER -> {Env(TRUE, FALSE, TRUE, TRUE, TRUE, TRUE)}

NextMsg ==
  \/ \E s \in MsgStreams, ok \in BOOLEAN, r \in MsgRemotes, u \in BOOLEAN, rd \in BOOLEAN :
       handleProtocol(s, ok, r, u, rd)
  \/ \E s \in MsgStreams, msg \in Messages : \E env \in EnvsFor(msg) : onMessage(s, msg, env)
  \/ \E s \in MsgStreams : closeSessionCall(s)
  \/ \E p \in MsgRemotes, c \in Connectedness : SetConnectedness(p, c)

InitMsg == Init /\ config_ = MsgConfig /\ NDEBUG
SpecMsg == InitMsg /\ [][NextMsg]_vars

(* Inputs enumerated for the session specification: two inbound streams of *)
(* one remote peer, each delivering a few messages.                        *)
SessMessages ==
  {Message(t, "k1", None, None, None) : t \in {"PING"} \cup UnknownTypes}
  \cup {Message("PUT_VALUE", "k1", None, None, Some(MsgRecord))}
  \cup {Message(t, k, None, None, None) :
          t \in {"GET_VALUE", "GET_PROVIDERS", "FIND_NODE"}, k \in {"", "k1"}}
  \cup {Message("ADD_PROVIDER", "k1", None, Some(<<MsgPeer(1, {"a1"}, "CAN_CONNECT")>>), None)}
SessEnvs ==
  {Env(TRUE, FALSE, TRUE, TRUE, TRUE, TRUE)} \cup
  {Env(FALSE, f, TRUE, TRUE, TRUE, TRUE) : f \in BOOLEAN}
SessEnvsFor(msg) ==
  IF msg.type \in {"PING", "GET_VALUE", "GET_PROVIDERS", "FIND_NODE"}
  THEN SessEnvs ELSE {Env(TRUE, FALSE, TRUE, TRUE, TRUE, TRUE)}

NextSession ==
  \/ \E s \in Streams, ok \in BOOLEAN, r \in MsgRemotes, rd \in BOOLEAN :
       handleProtocol(s, ok, r, TRUE, rd)
  \/ \E s \in Streams, msg \in SessMessages : \E env \in SessEnvsFor(msg) :
       onMessage(s, msg, env)
  \/ \E s \in Streams : closeSessionCall(s)

SpecSession == InitMsg /\ [][NextSession]_vars

(* Inputs enumerated for the provider specification.                       *)
ProvPeerInfos == [id : {Self}, addresses : SUBSET Addrs]
NextProviders ==
  \/ \E k \in Keys, n \in BOOLEAN : provide(k, n)
  \/ \E pi \in ProvPeerInfos, perm \in BOOLEAN, ok \in BOOLEAN : addPeerCall(pi, perm, ok)
  \/ \E k \in Keys, l \in Limits : findProviders(k, l)
  \/ \E p \in {Self} : findPeer(p)
  \/ RunScheduled
  \/ \E e \in executors : ExecutorDeliver(e)
  \/ \E p \in {Self}, c \in {"CONNECTED", "CAN_NOT_CONNECT"} : SetConnectedness(p, c)

SpecProviders == InitApi /\ [][NextProviders]_vars

(* ------------------------ start and random walk ----------------------- *)
(* findRandomPeer: the entry assertion, then findPeer(peer_id, handler)    *)
(* on a random peer id with the handler that adds the found peer.  repo is *)
(* the address repository as the caller left it.                           *)
findRandomPeer(repo, peer_id, executor_started) ==
  IF ~config_.randomWalk.enabled /\ ~NDEBUG
  THEN /\ aborted' = TRUE
       /\ UNCHANGED <<scheduled, executors, lookups>>
  ELSE /\ UNCHANGED aborted
       /\ lookups' = lookups + 1
       /\ LET peer_info == getPeerInfo(repo, peer_id)
          IN IF peer_info.addresses # {}
             THEN /\ scheduled' = Append(scheduled, [call |-> 0, result |-> peer_info])
                  /\ UNCHANGED executors
             ELSE /\ executors' =
                       IF executor_started
                       THEN executors \cup {[kind |-> "FindPeer", call |-> 0 - (lookups + 1),
                                              peers |-> {}]}
                       ELSE executors
                  /\ UNCHANGED scheduled

(* The delay randomWalk hands to the scheduler after walk `iteration`.     *)
walkDelay(iteration) ==
  LET rw == config_.randomWalk
  IN IF (iteration % rw.queries_per_period) # 0
     THEN rw.delay
     ELSE rw.interval - rw.delay * rw.queries_per_period

(* randomWalk that gives up when findRandomPeer returned an error.         *)
randomWalk_StopsOnError(outstanding, repo, peer_id, executor_started) ==
  IF ~config_.randomWalk.enabled /\ ~NDEBUG
  THEN /\ aborted' = TRUE
       /\ timers' = outstanding
       /\ UNCHANGED <<scheduled, executors, lookups, random_walking_, walks>>
  ELSE /\ findRandomPeer(repo, peer_id, executor_started)
       /\ IF getPeerInfo(repo, peer_id).addresses = {} /\ ~executor_started
          THEN /\ timers' = outstanding
               /\ UNCHANGED <<random_walking_, walks>>
          ELSE LET iteration == random_walking_.iteration
               IN /\ random_walking_' = [iteration |-> iteration + 1, handle |-> Some(iteration)]
                  /\ timers' = {t \in outstanding : Some(t.id) # random_walking_.handle}
                                 \cup {[id |-> iteration, delay |-> walkDelay(iteration)]}
                  /\ walks' = Append(walks, walkDelay(iteration))

(* randomWalk that schedules nothing when its lookup went to the network.  *)
randomWalk_WaitsForLookup(outstanding, repo, peer_id, executor_started) ==
  IF ~config_.randomWalk.enabled /\ ~NDEBUG
  THEN /\ aborted' = TRUE
       /\ timers' = outstanding
       /\ UNCHANGED <<scheduled, executors, lookups, random_walking_, walks>>
  ELSE /\ findRandomPeer(repo, peer_id, executor_started)
       /\ LET iteration == random_walking_.iteration
          IN /\ walks' = Append(walks, walkDelay(iteration))
             /\ IF getPeerInfo(repo, peer_id).addresses = {} /\ executor_started
                THEN /\ random_walking_' = [iteration |-> iteration + 1, handle |-> None]
                     /\ timers' = {t \in outstanding : Some(t.id) # random_walking_.handle}
                ELSE /\ random_walking_' =
                          [iteration |-> iteration + 1, handle |-> Some(iteration)]
                     /\ timers' = {t \in outstanding : Some(t.id) # random_walking_.handle}
                                    \cup {[id |-> iteration, delay |-> walkDelay(iteration)]}

(* randomWalk: one walk, then the next one is scheduled; assigning the new *)
(* handle releases the old one, which cancels its callback if that is      *)
(* still outstanding.  `outstanding` is the scheduler's set of delayed     *)
(* callbacks when randomWalk is entered.                                   *)
randomWalk(outstanding, repo, peer_id, executor_started) ==
  IF ~config_.randomWalk.enabled /\ ~NDEBUG
  THEN /\ aborted' = TRUE
       /\ timers' = outstanding
       /\ UNCHANGED <<scheduled, executors, lookups, random_walking_, walks>>
  ELSE /\ findRandomPeer(repo, peer_id, executor_started)
       /\ LET iteration == random_walking_.iteration
          IN /\ random_walking_' = [iteration |-> iteration + 1, handle |-> Some(iteration)]
             /\ timers' = {t \in outstanding : Some(t.id) # random_walking_.handle}
                            \cup {[id |-> iteration, delay |-> walkDelay(iteration)]}
             /\ walks' = Append(walks, walkDelay(iteration))

(* start(): self goes through addPeer, the protocol handler and the        *)
(* connection subscription are registered, the first walk is made.         *)
start(self_addresses, upsert_ok, peer_id, executor_started) ==
  /\ ~aborted
  /\ IF started_
     THEN /\ aborted' = ~NDEBUG
          /\ UNCHANGED <<started_, address_repository, peer_routing_table_, scheduled,
                         executors, lookups, random_walking_, timers, walks>>
     ELSE /\ started_' = TRUE
          /\ LET st == addPeer(NodeSt, [id |-> Self, addresses |-> self_addresses],
                               TRUE, upsert_ok)
             IN /\ address_repository' = st.repo
                /\ peer_routing_table_' = st.table
                /\ IF config_.randomWalk.enabled
                   THEN randomWalk(timers, st.repo, peer_id, executor_started)
                   ELSE UNCHANGED <<scheduled, executors, lookups, random_walking_,
                                    timers, walks, aborted>>
  /\ UNCHANGED <<config_, storage_, now, content_routing_table_, connectedness,
                 sessVars, calls, dispatched, NDEBUG>>

bootstrap(peer_id, executor_started) ==
  /\ ~aborted
  /\ lookups < MaxWalks
  /\ findRandomPeer(address_repository, peer_id, executor_started)
  /\ UNCHANGED <<config_, nodeVars, now, connectedness, sessVars, calls, dispatched,
                 started_, random_walking_, timers, walks, NDEBUG>>

(* The scheduler fires the delayed callback [this] { randomWalk(); }.      *)
RunWalkTimer(t, peer_id, executor_started) ==
  /\ ~aborted
  /\ t \in timers
  /\ random_walking_.iteration < MaxWalks
  /\ randomWalk(timers \ {t}, address_repository, peer_id, executor_started)
  /\ UNCHANGED <<config_, nodeVars, now, connectedness, sessVars, calls, dispatched,
                 started_, NDEBUG>>

(* The handler findRandomPeer gave to findPeer: a found peer is added.     *)
onRandomPeerFound(res, upsert_ok) ==
  LET st == IF Has(res) THEN addPeer(NodeSt, Get(res), FALSE, upsert_ok) ELSE NodeSt
  IN /\ address_repository' = st.repo
     /\ peer_routing_table_' = st.table

(* The scheduler runs the callback findPeer posted for a local hit.        *)
RunFoundLocally(upsert_ok) ==
  /\ ~aborted
  /\ scheduled # <<>>
  /\ Head(scheduled).call = 0
  /\ onRandomPeerFound(Some(Head(scheduled).result), upsert_ok)
  /\ scheduled' = Tail(scheduled)
  /\ UNCHANGED <<walkVars, config_, storage_, now, content_routing_table_, connectedness,
                 sessVars, calls, executors, dispatched>>

(* A FindPeerExecutor of a random walk completes with res.                 *)
RandomLookupDone(e, res, upsert_ok) ==
  /\ ~aborted
  /\ e \in executors
  /\ e.call < 0
  /\ executors' = executors \ {e}
  /\ onRandomPeerFound(res, upsert_ok)
  /\ UNCHANGED <<walkVars, config_, storage_, now, content_routing_table_, connectedness,
                 sessVars, calls, scheduled, dispatched>>

(* The subscription start() makes to OnNewConnectionChannel.               *)
onNewConnection(is_initiator, remote_peer_res, remote_peer_addr_res, upsert_ok) ==
  /\ ~aborted
  /\ started_
  /\ LET st == IF is_initiator /\ Has(remote_peer_res) /\ Has(remote_peer_addr_res)
               THEN addPeer(NodeSt, [id |-> Get(remote_peer_res),
                                     addresses |-> {Get(remote_peer_addr_res)}],
                            FALSE, upsert_ok)
               ELSE NodeSt
     IN /\ address_repository' = st.repo
        /\ peer_routing_table_' = st.table
  /\ UNCHANGED <<walkVars, config_, storage_, now, content_routing_table_, connectedness,
                 sessVars, apiVars, dispatched>>

(* Inputs enumerated for the walk specification: peer 1 is met through a   *)
(* connection, peer 2 through addPeer and the random lookups.              *)
WalkTargets == {2}
WalkFound == {None} \cup {Some([id |-> p, addresses |-> Addrs]) : p \in WalkTargets}
ConnPeers == {1}
WalkPeerInfos == [id : WalkTargets, addresses : {Addrs}]
NextWalk ==
  \/ \E a \in SUBSET Addrs, ok \in BOOLEAN, p \in WalkTargets, es \in BOOLEAN :
       start(a, ok, p, es)
  \/ \E p \in WalkTargets, es \in BOOLEAN : bootstrap(p, es)
  \/ \E t \in timers, p \in WalkTargets, es \in BOOLEAN : RunWalkTimer(t, p, es)
  \/ \E ok \in BOOLEAN : RunFoundLocally(ok)
  \/ \E e \in executors, res \in WalkFound, ok \in BOOLEAN : RandomLookupDone(e, res, ok)
  \/ \E i \in BOOLEAN, r \in {None} \cup {Some(p) : p \in ConnPeers},
        a \in {None} \cup {Some(x) : x \in Addrs}, ok \in BOOLEAN :
       onNewConnection(i, r, a, ok)
  \/ \E pi \in WalkPeerInfos, perm \in BOOLEAN, ok \in BOOLEAN :
       ~aborted /\ addPeerCall(pi, perm, ok)

InitWalk == Init /\ config_.closerPeerCount = 1 /\ config_.bucketSize = 1
SpecWalk == InitWalk /\ [][NextWalk]_vars

(* The walk under a fair scheduler: a delayed callback that stays          *)
(* outstanding is fired.  Nothing obliges a lookup to complete or a posted *)
(* callback of findPeer to run.                                            *)
WalkTimerFires ==
  \E t \in timers, p \in WalkTargets, es \in BOOLEAN : RunWalkTimer(t, p, es)
NextWalkFair ==
  \/ \E a \in SUBSET Addrs, ok \in BOOLEAN, p \in WalkTargets, es \in BOOLEAN :
       start(a, ok, p, es)
  \/ \E p \in WalkTargets, es \in BOOLEAN : bootstrap(p, es)
  \/ WalkTimerFires
  \/ \E ok \in BOOLEAN : RunFoundLocally(ok)
  \/ \E e \in executors, res \in WalkFound, ok \in BOOLEAN : RandomLookupDone(e, res, ok)
  \/ \E pi \in WalkPeerInfos, ok \in BOOLEAN : ~aborted /\ addPeerCall(pi, FALSE, ok)
SpecWalkFair == InitWalk /\ [][NextWalkFair]_vars /\ WF_vars(WalkTimerFires)

(* Inputs enumerated for the seed-set specification: every peer, the node  *)
(* itself included, can be handed to addPeer, with or without an address,  *)
(* and the connection manager changes its mind about peers 1 and 2.        *)
SeedConfig == [closerPeerCount |-> 1, bucketSize |-> 2, randomWalk |-> NoRandomWalk]
SeedPeerInfos == [id : Peers, addresses : SUBSET Addrs]
SeedRemotes == {1, 2}
NextSeed ==
  \/ \E k \in Keys, h \in BOOLEAN : getValue(k, h)
  \/ \E k \in Keys, v \in Values, ok \in BOOLEAN : putValue(k, v, ok)
  \/ \E pi \in SeedPeerInfos, ok \in BOOLEAN : addPeerCall(pi, FALSE, ok)
  \/ \E e \in executors : ExecutorDeliver(e)
  \/ \E p \in SeedRemotes, c \in {"NOT_CONNECTED", "CAN_NOT_CONNECT"} :
       SetConnectedness(p, c)

InitSeed == Init /\ config_ = SeedConfig /\ NDEBUG
SpecSeed == InitSeed /\ [][NextSeed]_vars

(* ============================== claims ================================ *)
NewCall == Len(calls') = Len(calls) + 1
TheCall == calls'[Len(calls')]
Fresh(k) == Has(storage_[k]) /\ now < Get(storage_[k]).expire
Pending(i) == Cardinality({j \in 1..Len(scheduled) : scheduled[j].call = i})
ExecutorsOf(i) == {e \in executors : e.call = i}

(* C1: no API call that takes a handler (getValue, findPeer,               *)
(* findProviders) runs the handler inside the call; the handler runs only  *)
(* in a later scheduler callback.                                          *)
C1_HandlerNeverSynchronous ==
  \A i \in 1..Len(calls) : calls[i].sync = 0

(* C2: when storage holds a record for the key whose expiry is later than  *)
(* now, getValue invokes the handler with the stored value, returns        *)
(* success, uses no routing-table lookup and starts no GetValueExecutor.   *)
C2_FreshRecordServedLocally ==
  [][\A k \in Keys :
       (NewCall /\ TheCall.op = "getValue" /\ TheCall.arg = k /\ Fresh(k))
       => /\ TheCall.ret = "success"
          /\ ~TheCall.lookup
          /\ ~TheCall.executor
          /\ executors' = executors
          /\ (TheCall.handler => TheCall.delivered = <<Get(storage_[k]).value>>)]_vars

(* C3: with no fresh local record and no candidate peer from the routing   *)
(* table, getValue returns NO_PEERS, creates no executor, and the handler  *)
(* of that call is invoked neither during the call nor afterwards.         *)
C3_NoPeersStep ==
  \A k \in Keys :
    (NewCall /\ TheCall.op = "getValue" /\ TheCall.arg = k /\ ~Fresh(k)
       /\ getNearestPeerInfos(NodeIdOfKey[k]) = {})
    => /\ TheCall.ret = "NO_PEERS"
       /\ ~TheCall.executor
       /\ executors' = executors
       /\ scheduled' = scheduled
       /\ TheCall.sync = 0
       /\ TheCall.delivered = <<>>
C3_NoPeersNeverDelivers ==
  \A i \in 1..Len(calls) :
    calls[i].ret = "NO_PEERS"
    => /\ calls[i].delivered = <<>>
       /\ calls[i].sync = 0
       /\ Pending(i) = 0
       /\ ExecutorsOf(i) = {}
(* C3: the step of a getValue without peers, and what holds of the call    *)
(* ever after.                                                             *)
C3_NoPeers == [][C3_NoPeersStep]_vars /\ []C3_NoPeersNeverDelivers
C3_Witness ==
  /\ Len(calls) = 2
  /\ calls[1].op = "getValue" /\ calls[1].ret = "NO_PEERS" /\ calls[1].handler
  /\ calls[2].ret = "success" /\ Len(calls[2].delivered) = 1

(* C4: an API call answered from local state invokes its handler exactly   *)
(* once: one delivery is posted or made, never a second, and no executor   *)
(* is started; findPeer delivers the PeerInfo the repository held for      *)
(* peer_id at the call.                                                    *)
C4_LocalHitOnce ==
  \A i \in 1..Len(calls) :
    calls[i].ret = "success"
    => /\ Len(calls[i].delivered) + Pending(i) = 1
       /\ ~calls[i].executor
       /\ ExecutorsOf(i) = {}
       /\ (calls[i].op = "findPeer" =>
             \A r \in Range(calls[i].delivered) \cup
                      {scheduled[j].result : j \in {n \in 1..Len(scheduled) :
                                                      scheduled[n].call = i}} :
               r.id = calls[i].arg /\ r.addresses # {})
C4_LocalHitStep ==
  (NewCall /\ TheCall.op = "findPeer"
     /\ getPeerInfo(address_repository, TheCall.arg).addresses # {})
  => /\ TheCall.ret = "success"
     /\ scheduled' = Append(scheduled,
                            [call |-> Len(calls'),
                             result |-> getPeerInfo(address_repository, TheCall.arg)])
C4_DeliveredStaysDelivered ==
  \A i \in 1..Len(calls) :
    (calls[i].ret = "success" /\ Len(calls[i].delivered) = 1)
    => calls'[i].delivered = calls[i].delivered
(* C4: exactly one delivery per locally answered call, in every state and *)
(* over every step.                                                        *)
C4_LocalHitExactlyOnce ==
  []C4_LocalHitOnce /\ [][C4_LocalHitStep /\ C4_DeliveredStaysDelivered]_vars
C4_Witness ==
  /\ Len(calls) = 2
  /\ calls[1].op = "findPeer" /\ calls[1].ret = "success"
  /\ calls[2].op = "getValue" /\ calls[2].ret = "success"
  /\ Len(calls[1].delivered) = 1 /\ Len(calls[2].delivered) = 1

(* C5: findProviders with limit > 0 is answered locally whenever the       *)
(* content table knows at least limit providers of the key that have an    *)
(* address and are not CAN_NOT_CONNECT: limit such providers are posted to *)
(* the handler and no FindProvidersExecutor is started.                    *)
Qualifying(k) ==
  {p \in Range(content_routing_table_[k]) :
     /\ getPeerInfo(address_repository, p).addresses # {}
     /\ connectedness[p] # "CAN_NOT_CONNECT"}
C5_LocalProvidersAnswered ==
  [][\A k \in Keys, l \in Limits \ {0} :
       (NewCall /\ TheCall.op = "findProviders" /\ TheCall.arg = <<k, l>>
          /\ Cardinality(Qualifying(k)) >= l)
       => /\ TheCall.ret = "success"
          /\ ~TheCall.executor
          /\ executors' = executors
          /\ Len(scheduled') = Len(scheduled) + 1
          /\ LET result == scheduled'[Len(scheduled')].result
             IN /\ Len(result) = l
                /\ \A i \in 1..Len(result) : result[i].id \in Qualifying(k)]_vars

(* ---------------------- inbound message claims ------------------------ *)
Dispatching == dispatched' # dispatched
D == Get(dispatched')
SessionsUntouched ==
  /\ sessions_' = sessions_
  /\ \A s \in Streams :
       [session'[s] EXCEPT !.requests = 0, !.responses = <<>>]
         = [session[s] EXCEPT !.requests = 0, !.responses = <<>>]
NodeUnchanged ==
  UNCHANGED <<storage_, content_routing_table_, peer_routing_table_, address_repository>>

(* C6: self-certification.  An ADD_PROVIDER message inserts into the       *)
(* content table only the remote peer id of the session it arrived on; a   *)
(* provider naming another peer, or a session whose remote peer id cannot  *)
(* be obtained, changes neither the content table nor the routing table.   *)
C6_SelfCertifiedStep ==
  (Dispatching /\ D.type = "ADD_PROVIDER")
  => /\ \A k \in Keys :
          /\ \A p \in Range(content_routing_table_'[k]) \ Range(content_routing_table_[k]) :
               Has(D.remote_peer_id) /\ p = Get(D.remote_peer_id)
                                     /\ p = session[D.stream].remote
          /\ LET remote == Get(D.remote_peer_id \o <<NoPeer>>)
             IN SeqWithout(content_routing_table_'[k], remote)
                  = SeqWithout(content_routing_table_[k], remote)
     /\ peer_routing_table_' \ peer_routing_table_ \subseteq Range(D.remote_peer_id)
     /\ peer_routing_table_ \subseteq peer_routing_table_'
     /\ (~Has(D.remote_peer_id) =>
           UNCHANGED <<content_routing_table_, peer_routing_table_, address_repository>>)
(* C6: every ADD_PROVIDER step is self-certified.                          *)
C6_SelfCertification == [][C6_SelfCertifiedStep]_vars
C6_Witness ==
  /\ Has(dispatched)
  /\ Get(dispatched).type = "ADD_PROVIDER"
  /\ Get(dispatched).remote_peer_id = Some(1)
  /\ content_routing_table_["k1"] = <<1>>
  /\ 1 \in peer_routing_table_

(* C7: the FIND_NODE response never carries the requester's closer_peers.  *)
(* The request's list only refreshes the address repository (24 h TTL);    *)
(* every peer of the response's closer_peers is a peer of the responder's  *)
(* routing table, described by the responder's repository and connection   *)
(* manager, and the field is absent when the routing table yields none.    *)
RoutingYields(k) ==
  {p \in Range(getNearestPeers(peer_routing_table_, NodeIdOfKey[k],
                               config_.closerPeerCount * 2)) :
     getPeerInfo(address_repository', p).addresses # {}}
C7_FindNodeStep ==
  (Dispatching /\ D.type = "FIND_NODE")
  => /\ UNCHANGED <<storage_, content_routing_table_, peer_routing_table_>>
     /\ \A p \in Peers, a \in Addrs :
          address_repository'[p][a] # address_repository[p][a]
          => address_repository'[p][a] = "day"
     /\ Has(D.response) =>
          LET r == Get(D.response)
          IN /\ Has(r.closer_peers) <=> RoutingYields(D.key) # {}
             /\ Has(r.closer_peers) =>
                  /\ Get(r.closer_peers) # <<>>
                  /\ \A i \in 1..Len(Get(r.closer_peers)) :
                       LET peer == Get(r.closer_peers)[i]
                       IN /\ peer.info.id \in peer_routing_table_
                          /\ peer.info = getPeerInfo(address_repository', peer.info.id)
                          /\ peer.conn_status = connectedness[peer.info.id]
(* C7: every FIND_NODE step answers from the responder's own tables.       *)
C7_FindNodeNeverEchoes == [][C7_FindNodeStep]_vars
C7_Witness ==
  /\ Has(dispatched)
  /\ Get(dispatched).type = "FIND_NODE"
  /\ Has(Get(dispatched).response)
  /\ Has(Get(Get(dispatched).response).closer_peers)
  /\ address_repository[2]["a1"] = "day"
  /\ 2 \notin peer_routing_table_

(* C8: a message of a type that is none of the six closes the session with *)
(* UNEXPECTED_MESSAGE_TYPE; no handler runs, nothing is written, and       *)
(* storage, content table, routing table and address repository stay.      *)
C8_UnknownTypeStep ==
  (Dispatching /\ D.type \notin MessageTypes)
  => /\ session'[D.stream].closed
     /\ session'[D.stream].error = "UNEXPECTED_MESSAGE_TYPE"
     /\ ~Has(D.response)
     /\ ~D.write_after_close
     /\ NodeUnchanged
(* C8: every step that dispatches an unknown type only closes the session. *)
C8_UnknownTypeCloses == [][C8_UnknownTypeStep]_vars
C8_Witness ==
  /\ Has(dispatched)
  /\ Get(dispatched).type \notin MessageTypes
  /\ session[Get(dispatched).stream].error = "UNEXPECTED_MESSAGE_TYPE"
  /\ content_routing_table_["k1"] # <<>>

(* C9: when serializing the response of a PING, FIND_NODE, GET_VALUE or    *)
(* GET_PROVIDERS handler fails, the session is closed with                 *)
(* MESSAGE_SERIALIZE_ERROR and session->write is not called after it.      *)
C9_NoWriteAfterSerializeError ==
  \A s \in Streams :
    (Has(dispatched) /\ Get(dispatched).stream = s
       /\ session[s].error = "MESSAGE_SERIALIZE_ERROR")
    => /\ session[s].closed
       /\ ~Has(Get(dispatched).response)
       /\ ~Get(dispatched).write_after_close

(* C10: a FIND_NODE, GET_VALUE, GET_PROVIDERS or ADD_PROVIDER message      *)
(* whose key is empty or no valid content id is dropped: nothing is        *)
(* written, the session stays open, and routing table, content table,      *)
(* storage and address repository are as before.                           *)
C10_InvalidKeyDropped ==
  [][(Dispatching
        /\ D.type \in {"FIND_NODE", "GET_VALUE", "GET_PROVIDERS", "ADD_PROVIDER"}
        /\ D.key \notin Keys)
     => /\ ~Has(D.response)
        /\ ~D.write_after_close
        /\ SessionsUntouched
        /\ NodeUnchanged]_vars

(* C11: an inbound PUT_VALUE without a record, or whose record the         *)
(* validator rejects, leaves storage as it was, writes no response and     *)
(* does not close the session; storage changes only to the record of a     *)
(* message the validator accepted.                                         *)
C11_PutValueStep ==
  (Dispatching /\ D.type = "PUT_VALUE")
  => /\ (~Has(D.record) \/ D.validate_ok = Some(FALSE))
          => /\ storage_' = storage_
             /\ ~Has(D.response)
             /\ ~D.write_after_close
             /\ SessionsUntouched
     /\ storage_' # storage_
          => /\ Has(D.record)
             /\ D.validate_ok = Some(TRUE)
             /\ LET rec == Get(D.record)
                IN /\ Has(storage_'[rec.key])
                   /\ Get(storage_'[rec.key]).value = rec.value
                   /\ \A k \in Keys \ {rec.key} : storage_'[k] = storage_[k]
(* C11: every PUT_VALUE step stores only what the validator accepted.      *)
C11_PutValueValidated == [][C11_PutValueStep]_vars
C11_Witness ==
  /\ Has(dispatched)
  /\ Get(dispatched).type = "PUT_VALUE"
  /\ Get(dispatched).validate_ok = Some(FALSE)
  /\ ~Has(storage_["k1"])
  /\ Get(dispatched).stream \in sessions_

(* C18: getValue never serves an expired local record.  When the stored    *)
(* record's expiry is at or before the scheduler's time, the handler is    *)
(* not invoked with the local value and the call goes on as on a miss:     *)
(* NO_PEERS without candidate peers, else a GetValueExecutor is started on *)
(* the nearest peers.                                                      *)
Expired(k) == Has(storage_[k]) /\ Get(storage_[k]).expire <= now
C18_ExpiredStep ==
  \A k \in Keys :
    (NewCall /\ TheCall.op = "getValue" /\ TheCall.arg = k /\ Expired(k))
    => /\ TheCall.sync = 0
       /\ TheCall.delivered = <<>>
       /\ scheduled' = scheduled
       /\ TheCall.lookup
       /\ LET peers == getNearestPeerInfos(NodeIdOfKey[k])
          IN IF peers = {}
             THEN /\ TheCall.ret = "NO_PEERS"
                  /\ ~TheCall.executor
                  /\ executors' = executors
             ELSE /\ TheCall.ret = "started"
                  /\ TheCall.executor
                  /\ executors' = executors \cup
                       {[kind |-> "GetValue", call |-> Len(calls'), peers |-> peers]}
C18_LocalValueOnlyOnSuccess ==
  \A i \in 1..Len(calls) :
    (calls[i].op = "getValue" /\ calls[i].ret # "success")
    => Range(calls[i].delivered) \subseteq {"lookup_result"}
(* C18: the step of a getValue on an expired record, and what its handler  *)
(* can receive afterwards.                                                 *)
C18_ExpiredNeverServed == [][C18_ExpiredStep]_vars /\ []C18_LocalValueOnlyOnSuccess
C18_Witness ==
  /\ now = 1
  /\ Has(storage_["k1"]) /\ Get(storage_["k1"]).expire = 1
  /\ Len(calls) = 2
  /\ calls[1].op = "getValue" /\ calls[1].ret = "success"
  /\ calls[2].op = "getValue" /\ calls[2].handler /\ calls[2].ret = "started"
  /\ calls[2].delivered = <<"lookup_result">>

(* C17: in every response to FIND_NODE, GET_PROVIDERS and GET_VALUE each   *)
(* peer list (closer_peers, provider_peers) has at most closerPeerCount    *)
(* entries, every entry has an address and carries the connection          *)
(* manager's connectedness of its peer, and no empty list is attached.     *)
WellFormedPeerList(field) ==
  Has(field)
  => /\ Get(field) # <<>>
     /\ Len(Get(field)) <= config_.closerPeerCount
     /\ \A i \in 1..Len(Get(field)) :
          /\ Get(field)[i].info.addresses # {}
          /\ Get(field)[i].conn_status = connectedness[Get(field)[i].info.id]
C17_ResponsePeerListsCapped ==
  [][(Dispatching /\ D.type \in {"FIND_NODE", "GET_PROVIDERS", "GET_VALUE"}
        /\ Has(D.response))
     => /\ WellFormedPeerList(Get(D.response).closer_peers)
        /\ WellFormedPeerList(Get(D.response).provider_peers)]_vars

(* C20: every provider accepted from an ADD_PROVIDER message (declared id  *)
(* equal to the session's remote peer id, valid key) is, when the handler  *)
(* returns, both in the content table for the key and in the peer routing  *)
(* table; the content table never gains a provider that the routing table  *)
(* does not hold.                                                          *)
C20_ProviderInBothTables ==
  [][(Dispatching /\ D.type = "ADD_PROVIDER" /\ D.key \in Keys
        /\ Has(D.remote_peer_id))
     => \A p \in D.providers :
          p = Get(D.remote_peer_id)
          => /\ p \in Range(content_routing_table_'[D.key])
             /\ p \in peer_routing_table_']_vars

(* ------------------------- session claims ----------------------------- *)
(* C14: after closeSession(stream) the session map has no entry for the    *)
(* stream; closeSession of a stream without an entry changes nothing, so   *)
(* closing twice is closing once; a session whose first read fails is      *)
(* removed too: the map never holds a closed or never-started session.     *)
C14_MapHoldsOnlyLiveSessions ==
  \A s \in Streams : s \in sessions_ => (session[s].opened /\ ~session[s].closed)
C14_CloseSessionIdempotent ==
  \A s \in Streams :
    LET once == closeSession(Sess, s)
    IN /\ s \notin once.map
       /\ once.map = sessions_ \ {s}
       /\ \A t \in Streams \ {s} : once.objects[t] = session[t]
       /\ s \notin sessions_ => once = Sess
       /\ closeSession(once, s) = once
(* C14: both hold in every reachable state.                                *)
C14_SessionMapOnClose == C14_MapHoldsOnlyLiveSessions /\ C14_CloseSessionIdempotent
C14_Witness ==
  /\ session["s1"].closed /\ session["s1"].error = "" /\ session["s1"].requests = 1
  /\ "s1" \notin sessions_
  /\ session["s2"].opened /\ session["s2"].closed /\ session["s2"].requests = 0
  /\ "s2" \notin sessions_

(* C15: on one session the responses are written in the order of the       *)
(* requests and at most one per request: exactly one for each well-formed  *)
(* PING, FIND_NODE, GET_VALUE and GET_PROVIDERS, none for PUT_VALUE and    *)
(* ADD_PROVIDER; a message on one session leaves the other sessions alone. *)
ReplyingTypes == {"PING", "FIND_NODE", "GET_VALUE", "GET_PROVIDERS"}
WellFormedRequest ==
  /\ D.type \in ReplyingTypes
  /\ D.type # "PING" => D.key \in Keys
ResponsesInOrder ==
  \A s \in Streams :
    LET r == session[s].responses
    IN /\ \A i \in 1..Len(r) : r[i] \in 1..session[s].requests
       /\ \A i, j \in 1..Len(r) : i < j => r[i] < r[j]
SessionStep(answered) ==
  Dispatching
  => LET s == D.stream
         n == session[s].requests + 1
     IN /\ session'[s].requests = n
        /\ \A t \in Streams \ {s} :
             session'[t] = session[t] /\ (t \in sessions_' <=> t \in sessions_)
        /\ session'[s].responses =
             IF Has(D.response) THEN Append(session[s].responses, n)
             ELSE session[s].responses
        /\ (WellFormedRequest /\ answered) => Has(D.response)
        /\ D.type \in {"PUT_VALUE", "ADD_PROVIDER"} => ~Has(D.response)
SerializeFailed == session'[D.stream].error = "MESSAGE_SERIALIZE_ERROR"
C15_SerializeFailureStep ==
  (Dispatching /\ SerializeFailed)
  => /\ ~Has(D.response)
     /\ session'[D.stream].closed
     /\ D.stream \notin sessions_'
RECURSIVE SumDelays(_, _, _)
SumDelays(s, from, to) ==
  IF from > to THEN 0 ELSE s[from] + SumDelays(s, from + 1, to)

(* C12: random-walk cadence.  With randomWalk enabled and                  *)
(* queries_per_period = q >= 1 the delays between consecutive walks are    *)
(* `delay` between the q walks of a period and `interval - delay*q` after  *)
(* the last walk of the period, so the delays of any q consecutive walks   *)
(* sum to exactly `interval`, from the first walk of start() on.           *)
C12_WalkCadence ==
  config_.randomWalk.enabled
  => LET rw == config_.randomWalk
         q == rw.queries_per_period
     IN /\ \A i \in 1..Len(walks) :
             walks[i] = IF i % q = 0 THEN rw.interval - rw.delay * q ELSE rw.delay
        /\ \A i \in 1..Len(walks) :
             i + q - 1 <= Len(walks) => SumDelays(walks, i, i + q - 1) = rw.interval

(* C13: after start() with randomWalk enabled exactly one random-walk      *)
(* callback is outstanding, the one random_walking_.handle names; the      *)
(* iteration counter grows by exactly 1 with each executed walk and never  *)
(* otherwise; a step that executes no walk (bootstrap, the other API       *)
(* calls, found peers) leaves counter, handle and callback alone.          *)
C13_OneOutstandingWalk ==
  (started_ /\ config_.randomWalk.enabled /\ ~aborted)
  => /\ Cardinality(timers) = 1
     /\ \A t \in timers : random_walking_.handle = Some(t.id)
     /\ random_walking_.iteration = Len(walks)
C13_WalkStep ==
  /\ random_walking_'.iteration \in
       {random_walking_.iteration, random_walking_.iteration + 1}
  /\ random_walking_'.iteration = random_walking_.iteration + 1
       <=> Len(walks') = Len(walks) + 1
  /\ walks' = walks => UNCHANGED <<random_walking_, timers>>
(* C13: the invariant of the walk state and its step property.             *)
C13_RandomWalkState == []C13_OneOutstandingWalk /\ [][C13_WalkStep]_vars
C13_Witness ==
  /\ started_ /\ config_.randomWalk.enabled /\ ~aborted
  /\ random_walking_.iteration = 2
  /\ lookups = 3
  /\ Cardinality(timers) = 1

(* C16: the node's own peer id is never in the peer routing table,         *)
(* whatever start(), addPeer, new connections and random-walk results      *)
(* happen.                                                                 *)
C16_SelfNeverInRoutingTable == Self \notin peer_routing_table_

(* C19: addPeer(peer_info, permanent) upserts the addresses with the       *)
(* permanent TTL when `permanent` and the 24 h TTL otherwise, and only     *)
(* then updates the routing table: a failed upsert leaves the routing      *)
(* table as it was, a rejected update leaves the upserted addresses.       *)
C19_AddPeerOrder ==
  \A peer_info \in [id : Peers, addresses : SUBSET Addrs],
     permanent \in BOOLEAN, upsert_ok \in BOOLEAN :
    LET r == addPeer(NodeSt, peer_info, permanent, upsert_ok)
        ttl == IF permanent THEN "permanent" ELSE "day"
        room == Cardinality({q \in peer_routing_table_ :
                               BucketOf(q) = BucketOf(peer_info.id)}) < config_.bucketSize
    IN IF ~upsert_ok
       THEN r.table = peer_routing_table_
       ELSE /\ \A a \in peer_info.addresses : r.repo[peer_info.id][a] = ttl
            /\ \A p \in Peers, a \in Addrs :
                 (p # peer_info.id \/ a \notin peer_info.addresses)
                 => r.repo[p][a] = address_repository[p][a]
            /\ r.table = IF room THEN peer_routing_table_ \cup {peer_info.id}
                         ELSE peer_routing_table_
C19_Witness ==
  /\ address_repository[2]["a1"] = "permanent"
  /\ 2 \notin peer_routing_table_
  /\ 1 \in peer_routing_table_

(* C21: the entry assertion of findRandomPeer, randomWalk.enabled, holds   *)
(* on every call, for every configuration: a step that runs the body of    *)
(* findRandomPeer (one more lookup issued) is taken with randomWalk        *)
(* enabled, and no step before start() fails an assertion (the only one    *)
(* reachable there is that of findRandomPeer, through bootstrap()).        *)
C21_EntryAssertionStep ==
  /\ lookups' # lookups => config_.randomWalk.enabled
  /\ (aborted' /\ ~aborted /\ ~started_) => config_.randomWalk.enabled
C21_EntryAssertionHolds == [][C21_EntryAssertionStep]_vars

(* ---------------------------- seed peer set --------------------------- *)
(* The peers of the routing table that are among the n nearest to target.  *)
AmongNearest(p, target, n) ==
  /\ p \in peer_routing_table_
  /\ Cardinality({q \in peer_routing_table_ :
                    Xor(NodeIdOfPeer[q], target) < Xor(NodeIdOfPeer[p], target)}) < n
Eligible(p, target) ==
  /\ p # Self
  /\ \E a \in Addrs : address_repository[p][a] # "absent"
  /\ connectedness[p] # "CAN_NOT_CONNECT"
  /\ AmongNearest(p, target, 2 * config_.closerPeerCount)

(* C23: the seed peer set of an outgoing GetValue lookup never contains    *)
(* the node itself, a peer without an address in the address repository or *)
(* a peer classified CAN_NOT_CONNECT, and it is drawn from at most         *)
(* 2*closerPeerCount nearest routing-table peers; getValue returns         *)
(* NO_PEERS when no such peer is left, also with a non-empty table.        *)
C23_SeedOfAnyTarget ==
  \A target \in 0..3 :
    LET seed == getNearestPeerInfos(target)
    IN /\ \A info \in seed : Eligible(info.id, target)
       /\ Cardinality(seed) <= 2 * config_.closerPeerCount
C23_SeedStep ==
  (NewCall /\ TheCall.op = "getValue" /\ TheCall.lookup)
  => LET target == NodeIdOfKey[TheCall.arg]
     IN IF \E p \in Peers : Eligible(p, target)
        THEN /\ TheCall.ret = "started"
             /\ \E e \in executors' \ executors :
                  /\ e.kind = "GetValue" /\ e.call = Len(calls')
                  /\ e.peers # {}
                  /\ \A info \in e.peers :
                       /\ Eligible(info.id, target)
                       /\ info = getPeerInfo(address_repository, info.id)
                  /\ Cardinality(e.peers) <= 2 * config_.closerPeerCount
        ELSE /\ TheCall.ret = "NO_PEERS"
             /\ executors' = executors
(* C23: the invariant for every target and the step property of getValue.  *)
C23_SeedPeerSet == []C23_SeedOfAnyTarget /\ [][C23_SeedStep]_vars
(* The first call started a lookup, so the table held a peer; it only      *)
(* grows, and the second call returned NO_PEERS.                           *)
C23_Witness ==
  /\ Len(calls) = 2
  /\ calls[1].op = "getValue" /\ calls[1].ret = "started"
  /\ calls[2].op = "getValue" /\ calls[2].ret = "NO_PEERS"
  /\ peer_routing_table_ = Peers

(* C22: once started with randomWalk enabled the walk never stops: every   *)
(* executed walk is followed by the next one, whatever its findRandomPeer  *)
(* did (answered locally, started a lookup that completes or never does,   *)
(* failed to start one), for as long as the process runs; walks are        *)
(* counted up to MaxWalks.                                                 *)
C22_WalkNeverStops ==
  \A n \in 0..(MaxWalks - 1) :
    (started_ /\ config_.randomWalk.enabled /\ random_walking_.iteration = n)
      ~> (random_walking_.iteration = n + 1 \/ aborted)
(* Three walks made: the lookup of the first one is still outstanding, the *)
(* other two failed to start theirs.                                       *)
C22_Witness ==
  /\ started_ /\ config_.randomWalk.enabled /\ ~aborted
  /\ random_walking_.iteration = MaxWalks
  /\ Len(walks) = MaxWalks
  /\ lookups = MaxWalks
  /\ \E e \in executors : e.call = 0 - 1
  /\ Cardinality(executors) = 1
  /\ scheduled = <<>>

====
